---- MODULE Spec2Model ----
(***************************************************************************)
(* Model of the catalog join and schedule derivation of genshin-mats-table *)
(* (src/src/logic.rs).  Strings whose contents the code inspects (material *)
(* names, word keys, localized phrases, thumbnails) are sequences of       *)
(* characters; strings the code only uses as opaque keys (character        *)
(* labels, weekday labels, type labels) are TLA+ strings.                  *)
(* Option values are sequences of length 0 (None) or 1 (Some).             *)
(***************************************************************************)
EXTENDS Integers, Sequences, FiniteSets, TLC

VARIABLES pc, call, ret

vars == <<pc, call, ret>>

(***************************************************************************)
(* Bounds of the explored inputs.                                          *)
(***************************************************************************)
\* Number of pieces a classified full name is concatenated from.
MaxPieces == 2
\* Number of characters handed to group_by_material.
MaxGroupChars == 2
\* Number of materials of a character handed to group_by_material.
MaxGroupMats == 2
\* Number of characters of a localized phrase.
MaxPhraseLen == 4
\* Largest numeric id of the two id tables.
MaxId == 2
\* Number of raw material line items in character-talent-level-up.json.
MaxItems == 2
\* Number of entries of resources.json handed to read_resources alone.
MaxResources == 2

\* Option<T>.
None == <<>>
Some(x) == <<x>>
IsSome(o) == Len(o) = 1
Unwrap(o) == o[1]

(***************************************************************************)
(* enum DayOfWeek, in declaration order.                                   *)
(***************************************************************************)
DayOfWeekIter ==
  <<"Monday", "Tuesday", "Wednesday", "Thursday", "Friday", "Saturday", "Sunday">>

DayOfWeek == {DayOfWeekIter[i] : i \in 1..Len(DayOfWeekIter)}

(***************************************************************************)
(* enum TalentLevelUpMaterialType, in declaration order (EnumIter).        *)
(***************************************************************************)
TalentLevelUpMaterialTypeIter ==
  <<"Freedom", "Resistance", "Ballad",
    "Prosperity", "Diligence", "Gold",
    "Transience", "Elegance", "Light",
    "Admonition", "Ingenuity", "Praxis",
    "Equity", "Justice", "Order",
    "Contention", "Kindling", "Conflict">>

TalentLevelUpMaterialType ==
  {TalentLevelUpMaterialTypeIter[i] : i \in 1..Len(TalentLevelUpMaterialTypeIter)}

\* Position of a member in the declaration order.
Ordinal(mat_type) ==
  CHOOSE i \in 1..Len(TalentLevelUpMaterialTypeIter) :
    TalentLevelUpMaterialTypeIter[i] = mat_type

\* AsRefStr: the canonical token of a member is its variant name.
AsRef ==
  ("Freedom" :> <<"F","r","e","e","d","o","m">>) @@
  ("Resistance" :> <<"R","e","s","i","s","t","a","n","c","e">>) @@
  ("Ballad" :> <<"B","a","l","l","a","d">>) @@
  ("Prosperity" :> <<"P","r","o","s","p","e","r","i","t","y">>) @@
  ("Diligence" :> <<"D","i","l","i","g","e","n","c","e">>) @@
  ("Gold" :> <<"G","o","l","d">>) @@
  ("Transience" :> <<"T","r","a","n","s","i","e","n","c","e">>) @@
  ("Elegance" :> <<"E","l","e","g","a","n","c","e">>) @@
  ("Light" :> <<"L","i","g","h","t">>) @@
  ("Admonition" :> <<"A","d","m","o","n","i","t","i","o","n">>) @@
  ("Ingenuity" :> <<"I","n","g","e","n","u","i","t","y">>) @@
  ("Praxis" :> <<"P","r","a","x","i","s">>) @@
  ("Equity" :> <<"E","q","u","i","t","y">>) @@
  ("Justice" :> <<"J","u","s","t","i","c","e">>) @@
  ("Order" :> <<"O","r","d","e","r">>) @@
  ("Contention" :> <<"C","o","n","t","e","n","t","i","o","n">>) @@
  ("Kindling" :> <<"K","i","n","d","l","i","n","g">>) @@
  ("Conflict" :> <<"C","o","n","f","l","i","c","t">>)

(***************************************************************************)
(* str::contains: pat occurs in s at some position.                        *)
(***************************************************************************)
MatchesAt(s, pat, i) ==
  /\ i + Len(pat) - 1 <= Len(s)
  /\ \A k \in 1..Len(pat) : s[i + k - 1] = pat[k]

Contains(s, pat) == \E i \in 1..(Len(s) - Len(pat) + 1) : MatchesAt(s, pat, i)

(***************************************************************************)
(* TalentLevelUpMaterialType::from_full_name:                              *)
(*   Self::iter().find(|mat_type| fullname.contains(mat_type.as_ref()))    *)
(***************************************************************************)
RECURSIVE IterFind(_, _)
IterFind(fullname, i) ==
  IF i > Len(TalentLevelUpMaterialTypeIter) THEN None
  ELSE IF Contains(fullname, AsRef[TalentLevelUpMaterialTypeIter[i]])
       THEN Some(TalentLevelUpMaterialTypeIter[i])
       ELSE IterFind(fullname, i + 1)

RECURSIVE IterRFind(_, _)
IterRFind(fullname, i) ==
  IF i < 1 THEN None
  ELSE IF Contains(fullname, AsRef[TalentLevelUpMaterialTypeIter[i]])
       THEN Some(TalentLevelUpMaterialTypeIter[i])
       ELSE IterRFind(fullname, i - 1)

\* The full name compared with the token for equality (from_str instead of contains).
from_full_name_exact(fullname) ==
  LET same == {m \in TalentLevelUpMaterialType : AsRef[m] = fullname}
  IN  IF same = {} THEN None ELSE Some(CHOOSE m \in same : TRUE)

\* The scan run from the last member backwards (rfind instead of find).
from_full_name_rfind(fullname) ==
  IterRFind(fullname, Len(TalentLevelUpMaterialTypeIter))

from_full_name(fullname) == IterFind(fullname, 1)

(***************************************************************************)
(* Input strings of the classifier: concatenations of at most MaxPieces    *)
(* pieces; a piece is a canonical token, a name prefix of the catalogs, or *)
(* a fragment of a token.                                                  *)
(***************************************************************************)
TeachingsOf == <<"T","e","a","c","h","i","n","g","s"," ","o","f"," ">>

Pieces ==
  {AsRef[m] : m \in TalentLevelUpMaterialType}
    \cup {TeachingsOf, <<"G","o","l">>, <<"d">>}

RECURSIVE Concats(_)
Concats(n) ==
  IF n = 0 THEN {<<>>}
  ELSE LET shorter == Concats(n - 1)
       IN  shorter \cup {s \o p : s \in shorter, p \in Pieces}

FullNames == Concats(MaxPieces)

(***************************************************************************)
(* HashMap as a function; insert replaces the value of an existing key.    *)
(***************************************************************************)
EmptyMap == <<>>

Insert(map, k, v) ==
  [x \in (DOMAIN map) \cup {k} |-> IF x = k THEN v ELSE map[x]]

Get(map, k) == IF k \in DOMAIN map THEN Some(map[k]) ELSE None

(***************************************************************************)
(* day_to_mat_type: the hand-maintained weekday schedule table.            *)
(***************************************************************************)
\* Monday's list written oldest region first.
mapping_oldest_first ==
  << <<"Monday",
       <<"Freedom", "Prosperity", "Transience", "Admonition", "Equity", "Contention">> >>,
     <<"Tuesday",
       <<"Kindling", "Justice", "Ingenuity", "Elegance", "Diligence", "Resistance">> >>,
     <<"Wednesday",
       <<"Conflict", "Order", "Praxis", "Light", "Gold", "Ballad">> >> >>

mapping ==
  << <<"Monday",
       <<"Contention", "Equity", "Admonition", "Transience", "Prosperity", "Freedom">> >>,
     <<"Tuesday",
       <<"Kindling", "Justice", "Ingenuity", "Elegance", "Diligence", "Resistance">> >>,
     <<"Wednesday",
       <<"Conflict", "Order", "Praxis", "Light", "Gold", "Ballad">> >> >>

RECURSIVE InsertAll(_, _, _)
InsertAll(map, pairs, i) ==
  IF i > Len(pairs) THEN map
  ELSE InsertAll(Insert(map, pairs[i][1], pairs[i][2]), pairs, i + 1)

\* Saturday mirrored from Tuesday instead of Wednesday.
day_to_mat_type_saturday_slip ==
  LET map0 == InsertAll(EmptyMap, mapping, 1)
      map1 == Insert(map0, "Thursday", map0["Monday"])
      map2 == Insert(map1, "Friday", map1["Tuesday"])
      map3 == Insert(map2, "Saturday", map2["Tuesday"])
  IN  Insert(map3, "Sunday", TalentLevelUpMaterialTypeIter)

day_to_mat_type ==
  LET map0 == InsertAll(EmptyMap, mapping, 1)
      map1 == Insert(map0, "Thursday", map0["Monday"])
      map2 == Insert(map1, "Friday", map1["Tuesday"])
      map3 == Insert(map2, "Saturday", map2["Wednesday"])
  IN  Insert(map3, "Sunday", TalentLevelUpMaterialTypeIter)

(***************************************************************************)
(* relevant_days: the three weekday pairs, flagged against today.          *)
(* Local::now().weekday() is a chrono::Weekday, converted by the match.    *)
(***************************************************************************)
ChronoWeekday == {"Mon", "Tue", "Wed", "Thu", "Fri", "Sat", "Sun"}

WeekdayMatch ==
  ("Mon" :> "Monday") @@ ("Tue" :> "Tuesday") @@ ("Wed" :> "Wednesday") @@
  ("Thu" :> "Thursday") @@ ("Fri" :> "Friday") @@ ("Sat" :> "Saturday") @@
  ("Sun" :> "Sunday")

\* The Sunday disjunct left out of the third entry.
relevant_days_sunday_slip(now) ==
  LET weekday == WeekdayMatch[now]
  IN  << [day_of_week |-> "Monday", display_name |-> "Mon/Thu",
          is_today |-> weekday = "Monday" \/ weekday = "Thursday" \/ weekday = "Sunday"],
         [day_of_week |-> "Tuesday", display_name |-> "Tue/Fri",
          is_today |-> weekday = "Tuesday" \/ weekday = "Friday" \/ weekday = "Sunday"],
         [day_of_week |-> "Wednesday", display_name |-> "Wed/Sat",
          is_today |-> weekday = "Wednesday" \/ weekday = "Saturday"] >>

\* display_name stands for the Japanese pair label of the source.
relevant_days(now) ==
  LET weekday == WeekdayMatch[now]
  IN  << [day_of_week |-> "Monday", display_name |-> "Mon/Thu",
          is_today |-> weekday = "Monday" \/ weekday = "Thursday" \/ weekday = "Sunday"],
         [day_of_week |-> "Tuesday", display_name |-> "Tue/Fri",
          is_today |-> weekday = "Tuesday" \/ weekday = "Friday" \/ weekday = "Sunday"],
         [day_of_week |-> "Wednesday", display_name |-> "Wed/Sat",
          is_today |-> weekday = "Wednesday" \/ weekday = "Saturday" \/ weekday = "Sunday"] >>

(***************************************************************************)
(* group_by_material: characters keyed by the type of their first material *)
(***************************************************************************)
\* The key taken from the last material of the character.
KeyOf_last(character) ==
  character.talent_materials[Len(character.talent_materials)].mat_type

KeyOf(character) == character.talent_materials[1].mat_type

RECURSIVE GroupLoop(_, _, _)
GroupLoop(map, characters, i) ==
  IF i > Len(characters) THEN map
  ELSE LET character == characters[i]
       IN  IF character.talent_materials = <<>>
           THEN GroupLoop(map, characters, i + 1)
           ELSE LET mat_type == KeyOf(character)
                    old == IF mat_type \in DOMAIN map THEN map[mat_type] ELSE <<>>
                IN  GroupLoop(Insert(map, mat_type, Append(old, character)),
                              characters, i + 1)

group_by_material(characters) == GroupLoop(EmptyMap, characters, 1)

(***************************************************************************)
(* Inputs of group_by_material.                                            *)
(***************************************************************************)
SeqsUpTo(S, n) == UNION {[1..k -> S] : k \in 0..n}

Teachings(mat_type) == TeachingsOf \o AsRef[mat_type]

GroupMaterials ==
  { [name |-> Teachings("Justice"), mat_type |-> "Justice",
     days |-> <<"Tuesday", "Friday", "Sunday">>],
    [name |-> Teachings("Freedom"), mat_type |-> "Freedom",
     days |-> <<"Monday", "Thursday", "Sunday">>] }

GroupCharacters ==
  { [name |-> n, talent_materials |-> mats, thumbnail |-> <<"d",".","w","e","b","p">>] :
      n \in {"Diluc", "Furina"}, mats \in SeqsUpTo(GroupMaterials, MaxGroupMats) }

GroupInputs == SeqsUpTo(GroupCharacters, MaxGroupChars)

(***************************************************************************)
(* Localized phrases.  A phrase is a sequence of characters; "LQ" and "RQ" *)
(* stand for the opening and closing corner brackets U+300C and U+300D,    *)
(* "Sei" for a kanji, "a" for an ASCII letter.  str::find and the slices   *)
(* of the code work on UTF-8 byte offsets.                                 *)
(***************************************************************************)
LQ == "LQ"
RQ == "RQ"

PhraseAlphabet == {LQ, RQ, "Sei", "a"}

\* char::len_utf8
len_utf8(c) == IF c \in {LQ, RQ, "Sei"} THEN 3 ELSE 1

\* Byte offset at which the i-th character starts (i = Len + 1: the end).
RECURSIVE ByteOffset(_, _)
ByteOffset(s, i) ==
  IF i <= 1 THEN 0 ELSE ByteOffset(s, i - 1) + len_utf8(s[i - 1])

IsCharBoundary(s, b) == \E i \in 1..(Len(s) + 1) : ByteOffset(s, i) = b

CharAt(s, b) == CHOOSE i \in 1..(Len(s) + 1) : ByteOffset(s, i) = b

\* str::find(glyph): byte offset of the first occurrence.
find(s, glyph) ==
  LET at == {i \in 1..Len(s) : s[i] = glyph}
  IN  IF at = {} THEN None
      ELSE Some(ByteOffset(s, CHOOSE i \in at : \A j \in at : i <= j))

\* &s[from..to] panics unless from <= to lie on character boundaries.
SliceOk(s, from, to) ==
  from <= to /\ IsCharBoundary(s, from) /\ IsCharBoundary(s, to)

Slice(s, from, to) == SubSeq(s, CharAt(s, from), CharAt(s, to) - 1)

\* Outcome of a computation that may panic.
Done(v) == [panic |-> FALSE, value |-> v]
Panic == [panic |-> TRUE, value |-> None]

(***************************************************************************)
(* extract_str_in_ja_quotes                                                *)
(***************************************************************************)
extract_str_in_ja_quotes(ja) ==
  LET start == find(ja, LQ)
      end == find(ja, RQ)
  IN  IF start = None THEN Done(None)
      ELSE IF end = None THEN Done(None)
      ELSE IF Unwrap(start) > Unwrap(end) THEN Done(None)
      ELSE IF ~SliceOk(ja, Unwrap(start), Unwrap(end)) THEN Panic
      ELSE LET s == Slice(ja, Unwrap(start), Unwrap(end))
           IN  IF s = <<>> THEN Done(None)
               ELSE IF ~SliceOk(s, len_utf8(s[1]), ByteOffset(s, Len(s) + 1))
                    THEN Panic
                    ELSE Done(Some(Slice(s, len_utf8(s[1]),
                                         ByteOffset(s, Len(s) + 1))))

(***************************************************************************)
(* read_words: the word table keyed by the English key; a later entry of   *)
(* words.json replaces an earlier one with the same key.                   *)
(***************************************************************************)
RECURSIVE ReadWordsLoop(_, _, _)
ReadWordsLoop(map, root, i) ==
  IF i > Len(root) THEN map
  ELSE ReadWordsLoop(Insert(map, root[i].en, root[i]), root, i + 1)

read_words(root) == ReadWordsLoop(EmptyMap, root, 1)

(***************************************************************************)
(* mat_type_to_name: Ok(display string) or Err(context).                   *)
(***************************************************************************)
Ok(v) == [ok |-> TRUE, value |-> v, error |-> "none"]
Err(e) == [ok |-> FALSE, value |-> <<>>, error |-> e]

mat_type_to_name(mat_type, root) ==
  LET words == read_words(root)
      teaching == TeachingsOf \o AsRef[mat_type]
      entry == Get(words, teaching)
  IN  IF entry = None THEN Done(Err("failed to find"))
      ELSE LET ja_opt == Unwrap(entry).ja
           IN  IF ja_opt = None THEN Done(Err("no japanese translation"))
               ELSE LET ja == Unwrap(ja_opt)
                        contains_ja_quotes ==
                          Contains(ja, <<LQ>>) /\ Contains(ja, <<RQ>>)
                    IN  IF ~contains_ja_quotes THEN Done(Err("failed to find quotes"))
                        ELSE LET extracted == extract_str_in_ja_quotes(ja)
                             IN  IF extracted.panic THEN Panic
                                 ELSE IF extracted.value = None
                                      THEN Done(Err("failed to extract string"))
                                      ELSE Done(Ok(Unwrap(extracted.value)))

(***************************************************************************)
(* Inputs of the translation lookup.                                       *)
(***************************************************************************)
Phrases == SeqsUpTo(PhraseAlphabet, MaxPhraseLen)

GuideTo == <<"G","u","i","d","e"," ","t","o"," ">>

WordKeys == {Teachings("Justice"), GuideTo \o AsRef["Justice"]}

WordEntries ==
  {[en |-> k, ja |-> j] : k \in WordKeys, j \in {None} \cup {Some(p) : p \in Phrases}}

WordsRoots == {<<>>} \cup {<<e>> : e \in WordEntries}

NamedTypes == {"Justice", "Freedom"}

(***************************************************************************)
(* read_en_to_jp: the cross reference of the two id tables.  en and jp are *)
(* HashMaps; en_order and jp_order are the orders in which the two loops   *)
(* happen to iterate them.                                                 *)
(***************************************************************************)
Orders(map) ==
  {o \in [1..Cardinality(DOMAIN map) -> DOMAIN map] :
     \A i, j \in DOMAIN o : o[i] = o[j] => i = j}

\* The entry recorded in the opposite direction (jp label -> en label).
PairEntry_swapped(en_to_jp, en_key, jp_key) == Insert(en_to_jp, jp_key, en_key)

PairEntry(en_to_jp, en_key, jp_key) == Insert(en_to_jp, en_key, jp_key)

RECURSIVE JpLoop(_, _, _, _, _, _)
JpLoop(en_to_jp, en, jp, en_key, jp_order, j) ==
  IF j > Len(jp_order) THEN en_to_jp
  ELSE LET jp_key == jp_order[j]
       IN  JpLoop(IF en[en_key] = jp[jp_key]
                  THEN PairEntry(en_to_jp, en_key, jp_key)
                  ELSE en_to_jp,
                  en, jp, en_key, jp_order, j + 1)

RECURSIVE EnLoop(_, _, _, _, _, _)
EnLoop(en_to_jp, en, jp, en_order, jp_order, i) ==
  IF i > Len(en_order) THEN en_to_jp
  ELSE EnLoop(JpLoop(en_to_jp, en, jp, en_order[i], jp_order, 1),
              en, jp, en_order, jp_order, i + 1)

read_en_to_jp(en, jp, en_order, jp_order) ==
  EnLoop(EmptyMap, en, jp, en_order, jp_order, 1)

(***************************************************************************)
(* read_characters: the roster keyed by name.                              *)
(***************************************************************************)
RECURSIVE CollectByName(_, _, _)
CollectByName(map, entries, i) ==
  IF i > Len(entries) THEN map
  ELSE CollectByName(Insert(map, entries[i].name, entries[i]), entries, i + 1)

read_characters(entries) == CollectByName(EmptyMap, entries, 1)

(***************************************************************************)
(* read_resources: only items of type "Talent Level-Up Material" are kept, *)
(* keyed by name.                                                          *)
(***************************************************************************)
LEVEL_UP_MAT == "Talent Level-Up Material"

\* Only the type label checked, the object_type left out.
IsLevelUpItem_type_only(resource) == resource.type_field = LEVEL_UP_MAT

IsLevelUpItem(resource) ==
  resource.object_type = "item" /\ resource.type_field = LEVEL_UP_MAT

read_resources(data) == CollectByName(EmptyMap, SelectSeq(data, IsLevelUpItem), 1)

(***************************************************************************)
(* png2webp_extension: Path::with_extension("webp") on a file name.        *)
(***************************************************************************)
LastDot(filename) ==
  LET dots == {i \in 1..Len(filename) : filename[i] = "."}
  IN  IF dots = {} THEN 0 ELSE CHOOSE i \in dots : \A j \in dots : j <= i

png2webp_extension(filename) ==
  LET dot == LastDot(filename)
      stem == IF dot <= 1 THEN filename ELSE SubSeq(filename, 1, dot - 1)
  IN  stem \o <<".", "w", "e", "b", "p">>

(***************************************************************************)
(* convert_to_talent_mats: the materials of one character joined with the  *)
(* resource index.                                                         *)
(***************************************************************************)
\* DayOfWeek::from_str (EnumString): the exact variant name, or an error.
from_str(day_of_week) ==
  IF day_of_week \in DayOfWeek THEN Some(day_of_week) ELSE None

\* What the closure of filter_map does with one line item:
\* "drop" (None), "keep" (Some) or "panic" (unwrap of a parse error).
ItemStep(mat, resources) ==
  IF mat.mat_type # LEVEL_UP_MAT THEN [step |-> "drop"]
  ELSE LET resource == Get(resources, mat.name)
       IN  IF resource = None THEN [step |-> "drop"]
           ELSE LET days_of_week == Unwrap(resource).days
                IN  IF days_of_week = None THEN [step |-> "drop"]
                    ELSE LET labels == Unwrap(days_of_week)
                         IN  IF \E k \in 1..Len(labels) : from_str(labels[k]) = None
                             THEN [step |-> "panic"]
                             ELSE LET mat_type == from_full_name(mat.name)
                                  IN  IF mat_type = None THEN [step |-> "drop"]
                                      ELSE [step |-> "keep",
                                            mat |-> [name |-> mat.name,
                                                     mat_type |-> Unwrap(mat_type),
                                                     days |-> [k \in 1..Len(labels) |->
                                                                 Unwrap(from_str(labels[k]))]]]

RECURSIVE FilterMapItems(_, _, _)
FilterMapItems(materials, resources, i) ==
  IF i > Len(materials) THEN Done(<<>>)
  ELSE LET first == ItemStep(materials[i], resources)
       IN  IF first.step = "panic" THEN Panic
           ELSE LET rest == FilterMapItems(materials, resources, i + 1)
                IN  IF rest.panic THEN Panic
                    ELSE IF first.step = "drop" THEN rest
                    ELSE Done(<<first.mat>> \o rest.value)

convert_to_talent_mats(talent_mat, resources) ==
  FilterMapItems(talent_mat.materials, resources, 1)

(***************************************************************************)
(* read_character_mats: the join of the id tables, the roster, the         *)
(* resource catalog and the per-character material lists.                  *)
(***************************************************************************)
IsTalentLevelUpMaterials(data) == data.object_type = "talent-level-up-materials"

\* Best to keep the English name displayed if it fails to find the translation.
DisplayName(en_to_jp, character_name) ==
  IF character_name \in DOMAIN en_to_jp THEN en_to_jp[character_name]
  ELSE character_name

\* One character of the map closure: Character::new(name, materials, thumbnail.unwrap()).
JoinOne(talent_mat, en_to_jp, character_entries, resources) ==
  LET entry == Get(character_entries, talent_mat.character_name)
      mats == convert_to_talent_mats(talent_mat, resources)
  IN  IF mats.panic THEN Panic
      ELSE IF entry = None THEN Panic
      ELSE Done([name |-> DisplayName(en_to_jp, talent_mat.character_name),
                 talent_materials |-> mats.value,
                 thumbnail |-> png2webp_extension(Unwrap(entry).thumbnail)])

RECURSIVE JoinAll(_, _, _, _, _)
JoinAll(talent_materials, en_to_jp, character_entries, resources, i) ==
  IF i > Len(talent_materials) THEN Done(<<>>)
  ELSE LET first == JoinOne(talent_materials[i], en_to_jp, character_entries, resources)
       IN  IF first.panic THEN Panic
           ELSE LET rest == JoinAll(talent_materials, en_to_jp, character_entries,
                                    resources, i + 1)
                IN  IF rest.panic THEN Panic
                    ELSE Done(<<first.value>> \o rest.value)

read_character_mats(en, jp, en_order, jp_order, characters, resources_data, talents) ==
  LET en_to_jp == read_en_to_jp(en, jp, en_order, jp_order)
      character_entries == read_characters(characters)
      resources == read_resources(resources_data)
      talent_materials == SelectSeq(talents, IsTalentLevelUpMaterials)
  IN  JoinAll(talent_materials, en_to_jp, character_entries, resources, 1)

(***************************************************************************)
(* Inputs of the cross reference and of the join.                          *)
(***************************************************************************)
EnLabels == {"Diluc", "Aloy"}
JpLabels == {"Dirukku", "Aaroi"}

IdTables(labels) == UNION {[S -> 1..MaxId] : S \in SUBSET labels}

\* Id tables of the join: a match, no match, and colliding ids.
JoinIdTables ==
  { <<("Diluc" :> 1), ("Dirukku" :> 1)>>,
    <<("Diluc" :> 1), ("Dirukku" :> 2)>>,
    <<("Diluc" :> 1) @@ ("Aloy" :> 1), ("Dirukku" :> 1) @@ ("Aaroi" :> 1)>> }

RosterEntry(name, thumbnail) == [name |-> name, thumbnail |-> thumbnail]

DilucEntry == RosterEntry("Diluc", <<"d", ".", "p", "n", "g">>)
AloyEntry == RosterEntry("Aloy", <<"a", ".", "x", ".", "p", "n", "g">>)

JoinRosters == {<<DilucEntry, AloyEntry>>, <<DilucEntry>>}

Scroll == <<"S","c","r","o","l","l">>

Resource(object_type, name, type_field, days) ==
  [object_type |-> object_type, name |-> name, type_field |-> type_field, days |-> days]

\* Every catalog of the join holds a material of another type and one whose
\* name classifies to nothing; the entry of "Teachings of Justice" varies.
JusticeEntries ==
  { <<>>,
    <<Resource("item", Teachings("Justice"), LEVEL_UP_MAT,
               Some(<<"Tuesday", "Friday", "Sunday">>))>>,
    <<Resource("item", Teachings("Justice"), LEVEL_UP_MAT, None)>>,
    <<Resource("item", Teachings("Justice"), LEVEL_UP_MAT, Some(<<>>))>>,
    <<Resource("item", Teachings("Justice"), LEVEL_UP_MAT, Some(<<"Tuesday", "Funday">>))>>,
    <<Resource("enemy", Teachings("Justice"), LEVEL_UP_MAT, Some(<<"Tuesday">>))>> }

JoinCatalogs ==
  { << Resource("item", Teachings("Freedom"), LEVEL_UP_MAT,
                Some(<<"Monday", "Thursday", "Sunday">>)),
       Resource("item", Scroll, LEVEL_UP_MAT, Some(<<"Monday">>)) >> \o justice :
      justice \in JusticeEntries }

\* Catalogs handed to read_resources alone: entries of both object types
\* and type labels, with repeated names.
CatalogEntries ==
  { Resource(object_type, name, type_field, days) :
      object_type \in {"item", "enemy"},
      name \in {Teachings("Justice"), Scroll},
      type_field \in {LEVEL_UP_MAT, "Common Ascension Material"},
      days \in {None, Some(<<"Tuesday">>)} }

Catalogs == SeqsUpTo(CatalogEntries, MaxResources)

RawMaterial(mat_type, name) == [mat_type |-> mat_type, name |-> name]

RawMaterials ==
  { RawMaterial(LEVEL_UP_MAT, Teachings("Justice")),
    RawMaterial(LEVEL_UP_MAT, Teachings("Freedom")),
    RawMaterial(LEVEL_UP_MAT, Scroll),
    RawMaterial("Common Ascension Material", Teachings("Justice")) }

\* character-talent-level-up.json: one entry per character, in any order,
\* and possibly an entry of another object_type; the entries hold at most
\* MaxItems raw material line items in total.
OtherEntry == [object_type |-> "other", character_name |-> "", materials |-> <<>>]

TalentEntry(kind, materials) ==
  IF kind = "other" THEN OtherEntry
  ELSE [object_type |-> "talent-level-up-materials", character_name |-> kind,
        materials |-> materials]

EntryKinds ==
  {o \in SeqsUpTo(EnLabels \cup {"other"}, Cardinality(EnLabels)) :
     \A i, j \in DOMAIN o : o[i] = o[j] => i = j}

RECURSIVE TotalItems(_, _)
TotalItems(lists, i) ==
  IF i > Len(lists) THEN 0 ELSE Len(lists[i]) + TotalItems(lists, i + 1)

MaterialLists == SeqsUpTo(RawMaterials, MaxItems)

TalentLists ==
  UNION { { [i \in 1..Len(kinds) |-> TalentEntry(kinds[i], lists[i])] :
              lists \in {l \in [1..Len(kinds) -> MaterialLists] :
                           /\ TotalItems(l, 1) <= MaxItems
                           /\ \A i \in 1..Len(kinds) : kinds[i] = "other" => l[i] = <<>>} } :
          kinds \in EntryKinds }

(***************************************************************************)
(* The state machine: one call of a public operation at a time.            *)
(***************************************************************************)
Init ==
  /\ pc = "idle"
  /\ call = [op |-> "none"]
  /\ ret = None

Classify ==
  /\ pc = "idle"
  /\ \E fullname \in FullNames :
       /\ call' = [op |-> "from_full_name", fullname |-> fullname]
       /\ ret' = from_full_name(fullname)
  /\ pc' = "returned"

DayToMatType ==
  /\ pc = "idle"
  /\ call' = [op |-> "day_to_mat_type"]
  /\ ret' = day_to_mat_type
  /\ pc' = "returned"

RelevantDays ==
  /\ pc = "idle"
  /\ \E now \in ChronoWeekday :
       /\ call' = [op |-> "relevant_days", now |-> now]
       /\ ret' = relevant_days(now)
  /\ pc' = "returned"

GroupByMaterial ==
  /\ pc = "idle"
  /\ \E characters \in GroupInputs :
       /\ call' = [op |-> "group_by_material", characters |-> characters]
       /\ ret' = group_by_material(characters)
  /\ pc' = "returned"

\* pc' after a computation that may panic, and the value handed back.
After(outcome) ==
  /\ pc' = IF outcome.panic THEN "panicked" ELSE "returned"
  /\ ret' = outcome.value

ExtractStrInJaQuotes ==
  /\ pc = "idle"
  /\ \E ja \in Phrases :
       /\ call' = [op |-> "extract_str_in_ja_quotes", ja |-> ja]
       /\ After(extract_str_in_ja_quotes(ja))

MatTypeToName ==
  /\ pc = "idle"
  /\ \E mat_type \in NamedTypes, root \in WordsRoots :
       /\ call' = [op |-> "mat_type_to_name", mat_type |-> mat_type, words |-> root]
       /\ After(mat_type_to_name(mat_type, root))

ReadEnToJp ==
  /\ pc = "idle"
  /\ \E en \in IdTables(EnLabels), jp \in IdTables(JpLabels) :
       \E en_order \in Orders(en), jp_order \in Orders(jp) :
         /\ call' = [op |-> "read_en_to_jp", en |-> en, jp |-> jp]
         /\ ret' = read_en_to_jp(en, jp, en_order, jp_order)
  /\ pc' = "returned"

ReadResources ==
  /\ pc = "idle"
  /\ \E data \in Catalogs :
       /\ call' = [op |-> "read_resources", data |-> data]
       /\ ret' = read_resources(data)
  /\ pc' = "returned"

ReadCharacterMats ==
  /\ pc = "idle"
  /\ \E ids \in JoinIdTables, characters \in JoinRosters,
        resources_data \in JoinCatalogs, talents \in TalentLists :
       \E en_order \in Orders(ids[1]), jp_order \in Orders(ids[2]) :
         /\ call' = [op |-> "read_character_mats", en |-> ids[1], jp |-> ids[2],
                     characters |-> characters, resources |-> resources_data,
                     talents |-> talents]
         /\ After(read_character_mats(ids[1], ids[2], en_order, jp_order,
                                      characters, resources_data, talents))

Return ==
  /\ pc \in {"returned", "panicked"}
  /\ pc' = "idle"
  /\ call' = [op |-> "none"]
  /\ ret' = None

Next ==
  \/ Classify
  \/ DayToMatType
  \/ RelevantDays
  \/ GroupByMaterial
  \/ ExtractStrInJaQuotes
  \/ MatTypeToName
  \/ ReadEnToJp
  \/ ReadResources
  \/ ReadCharacterMats
  \/ Return

Spec == Init /\ [][Next]_vars

(***************************************************************************)
(* C1: from_full_name returns the first member, in declaration order,      *)
(* whose canonical token is a substring of the input; it returns nothing   *)
(* when no member's token is a substring; when the tokens of two members   *)
(* occur, the earlier-declared member is the result.                       *)
(***************************************************************************)
Matching(fullname) ==
  {m \in TalentLevelUpMaterialType : Contains(fullname, AsRef[m])}

C1_FirstMatchWins ==
  (pc = "returned" /\ call.op = "from_full_name") =>
    LET hits == Matching(call.fullname)
    IN  /\ (hits = {}) <=> (ret = None)
        /\ hits # {} =>
             /\ IsSome(ret)
             /\ Unwrap(ret) \in hits
             /\ \A m \in hits : Ordinal(Unwrap(ret)) <= Ordinal(m)

\* Two tokens occur and the earlier-declared one is returned.
C1_Witness ==
  /\ pc = "returned"
  /\ call.op = "from_full_name"
  /\ Cardinality(Matching(call.fullname)) = 2
  /\ ret = Some("Gold")
  /\ "Justice" \in Matching(call.fullname)

(***************************************************************************)
(* C2 (as stated): whenever a member's token is a substring of the input,  *)
(* from_full_name returns that member.                                     *)
(***************************************************************************)
C2_AnyEmbeddedTokenClassifies ==
  (pc = "returned" /\ call.op = "from_full_name") =>
    \A m \in Matching(call.fullname) : ret = Some(m)

(***************************************************************************)
(* C2 (amended): whenever a member's token is a substring of the input and *)
(* no earlier-declared member's token is, from_full_name returns that      *)
(* member, whatever surrounds the token.                                   *)
(***************************************************************************)
C2_EmbeddedTokenClassifies ==
  (pc = "returned" /\ call.op = "from_full_name") =>
    \A m \in Matching(call.fullname) :
      (\A e \in Matching(call.fullname) : Ordinal(m) <= Ordinal(e)) => ret = Some(m)

\* A token embedded between other characters classifies to its member.
C2_Witness ==
  /\ pc = "returned"
  /\ call.op = "from_full_name"
  /\ call.fullname = TeachingsOf \o AsRef["Justice"]
  /\ ret = Some("Justice")

(***************************************************************************)
(* C3: the table of day_to_mat_type has exactly the seven weekdays as      *)
(* keys, each with a non-empty list; Thursday, Friday and Saturday carry   *)
(* the lists of Monday, Tuesday and Wednesday; Sunday's list holds each of *)
(* the 18 members exactly once.                                            *)
(***************************************************************************)
Occurrences(list, x) == Cardinality({i \in 1..Len(list) : list[i] = x})

C3_ScheduleTable ==
  (pc = "returned" /\ call.op = "day_to_mat_type") =>
    /\ DOMAIN ret = DayOfWeek
    /\ \A d \in DOMAIN ret :
         /\ ret[d] # <<>>
         /\ \A i \in 1..Len(ret[d]) : ret[d][i] \in TalentLevelUpMaterialType
    /\ ret["Thursday"] = ret["Monday"]
    /\ ret["Friday"] = ret["Tuesday"]
    /\ ret["Saturday"] = ret["Wednesday"]
    /\ Cardinality(TalentLevelUpMaterialType) = 18
    /\ \A m \in TalentLevelUpMaterialType : Occurrences(ret["Sunday"], m) = 1

\* The table has been built and differs between the three pairs.
C3_Witness ==
  /\ pc = "returned"
  /\ call.op = "day_to_mat_type"
  /\ Len(ret["Sunday"]) = 18
  /\ ret["Saturday"] # ret["Friday"]
  /\ ret["Friday"] # ret["Thursday"]

(***************************************************************************)
(* C6: group_by_material never places a character under a key other than   *)
(* the type of the first element of its materials list, and a character    *)
(* whose materials list is empty appears under no key.                     *)
(***************************************************************************)
C6_GroupedByFirstMaterial ==
  (pc = "returned" /\ call.op = "group_by_material") =>
    /\ \A k \in DOMAIN ret : \A i \in 1..Len(ret[k]) :
         /\ ret[k][i].talent_materials # <<>>
         /\ ret[k][i].talent_materials[1].mat_type = k
    /\ \A j \in 1..Len(call.characters) :
         call.characters[j].talent_materials = <<>> =>
           \A k \in DOMAIN ret : \A i \in 1..Len(ret[k]) :
             ret[k][i] # call.characters[j]

\* A character with two materials of different types and one with none.
C6_Witness ==
  /\ pc = "returned"
  /\ call.op = "group_by_material"
  /\ Len(call.characters) = 2
  /\ call.characters[1].talent_materials = <<>>
  /\ Len(call.characters[2].talent_materials) = 2
  /\ call.characters[2].talent_materials[1].mat_type = "Justice"
  /\ call.characters[2].talent_materials[2].mat_type = "Freedom"
  /\ DOMAIN ret = {"Justice"}
  /\ ret["Justice"] = <<call.characters[2]>>

(***************************************************************************)
(* C7: relevant_days returns exactly three entries, Monday, Tuesday and    *)
(* Wednesday in this order, and an entry's is_today is true exactly when   *)
(* today is one of its pair's two weekdays or Sunday.                      *)
(***************************************************************************)
PairOf ==
  ("Monday" :> {"Mon", "Thu"}) @@ ("Tuesday" :> {"Tue", "Fri"}) @@
  ("Wednesday" :> {"Wed", "Sat"})

C7_RelevantDays ==
  (pc = "returned" /\ call.op = "relevant_days") =>
    /\ Len(ret) = 3
    /\ ret[1].day_of_week = "Monday"
    /\ ret[2].day_of_week = "Tuesday"
    /\ ret[3].day_of_week = "Wednesday"
    /\ \A i \in 1..3 :
         ret[i].is_today <=> (call.now \in PairOf[ret[i].day_of_week] \cup {"Sun"})

\* On Sunday all three entries are flagged.
C7_Witness ==
  /\ pc = "returned"
  /\ call.op = "relevant_days"
  /\ call.now = "Sun"
  /\ \A i \in 1..3 : ret[i].is_today

(***************************************************************************)
(* C4: for every phrase that holds an opening glyph with a closing glyph   *)
(* somewhere after it, extract_str_in_ja_quotes returns exactly the        *)
(* characters strictly between the first opening glyph and the first       *)
(* closing glyph after that opening glyph, also when other closing glyphs  *)
(* precede the opening glyph.                                              *)
(***************************************************************************)
FirstOpen(ja) == CHOOSE i \in 1..Len(ja) :
  ja[i] = LQ /\ \A k \in 1..(i - 1) : ja[k] # LQ

ClosesAfter(ja, i) == {j \in (i + 1)..Len(ja) : ja[j] = RQ}

HasBracketPair(ja) ==
  /\ \E i \in 1..Len(ja) : ja[i] = LQ
  /\ ClosesAfter(ja, FirstOpen(ja)) # {}

Between(ja) ==
  LET i == FirstOpen(ja)
      j == CHOOSE j \in ClosesAfter(ja, i) : \A k \in ClosesAfter(ja, i) : j <= k
  IN  SubSeq(ja, i + 1, j - 1)

C4_ExtractsBetweenBrackets ==
  (pc # "idle" /\ call.op = "extract_str_in_ja_quotes" /\ HasBracketPair(call.ja)) =>
    /\ pc = "returned"
    /\ ret = Some(Between(call.ja))

(***************************************************************************)
(* C5: mat_type_to_name returns an error value, and never crashes, when    *)
(* the word table has no entry for "Teachings of " + token, when the entry *)
(* has no localized phrase, when the phrase lacks the opening or the       *)
(* closing glyph, and when no opening glyph has a closing glyph after it;  *)
(* in every other case it returns a display string.                        *)
(***************************************************************************)
EntriesFor(root, key) == {i \in 1..Len(root) : root[i].en = key}

C5_ErrorExactlyWhenMalformed ==
  (pc # "idle" /\ call.op = "mat_type_to_name") =>
    LET key == TeachingsOf \o AsRef[call.mat_type]
        found == EntriesFor(call.words, key)
        entry == call.words[CHOOSE i \in found : \A k \in found : k <= i]
        fails == \/ found = {}
                 \/ entry.ja = None
                 \/ ~HasBracketPair(Unwrap(entry.ja))
    IN  /\ pc = "returned"
        /\ fails <=> ~ret.ok

(***************************************************************************)
(* C8: the cross reference has an entry for a locale-A label exactly when  *)
(* some locale-B label carries the same numeric id, and the entry's value  *)
(* is a locale-B label with that id; in the join a character whose label   *)
(* has no entry keeps its original label as display name, and the missing  *)
(* entry does not make the join fail.                                      *)
(***************************************************************************)
SameId(en, jp, label) ==
  IF label \in DOMAIN en THEN {b \in DOMAIN jp : jp[b] = en[label]} ELSE {}

\* The entries of character-talent-level-up.json that carry materials.
Rows(talents) ==
  SelectSeq(talents, LAMBDA d : d.object_type = "talent-level-up-materials")

RosterNames(characters) == {characters[i].name : i \in 1..Len(characters)}

\* The entry of the resource index for a name: the last retained entry.
IndexEntry(catalog, name) ==
  LET retained == {i \in 1..Len(catalog) :
                     /\ catalog[i].object_type = "item"
                     /\ catalog[i].type_field = "Talent Level-Up Material"
                     /\ catalog[i].name = name}
  IN  IF retained = {} THEN None
      ELSE Some(catalog[CHOOSE i \in retained : \A j \in retained : j <= i])

HasWeekdays(catalog, name) ==
  /\ IndexEntry(catalog, name) # None
  /\ Unwrap(IndexEntry(catalog, name)).days # None

Weekdays(catalog, name) == Unwrap(Unwrap(IndexEntry(catalog, name)).days)

UnparsableWeekday(catalog, mat) ==
  /\ mat.mat_type = "Talent Level-Up Material"
  /\ HasWeekdays(catalog, mat.name)
  /\ \E k \in 1..Len(Weekdays(catalog, mat.name)) :
       Weekdays(catalog, mat.name)[k] \notin DayOfWeek

\* The join stops for a reason that has nothing to do with the cross
\* reference: a character without roster entry or an unparsable weekday.
StopsElsewhere(c) ==
  \E i \in 1..Len(Rows(c.talents)) :
    \/ Rows(c.talents)[i].character_name \notin RosterNames(c.characters)
    \/ \E k \in 1..Len(Rows(c.talents)[i].materials) :
         UnparsableWeekday(c.resources, Rows(c.talents)[i].materials[k])

C8_CrossReference ==
  /\ (pc = "returned" /\ call.op = "read_en_to_jp") =>
       /\ DOMAIN ret = {a \in DOMAIN call.en : SameId(call.en, call.jp, a) # {}}
       /\ \A a \in DOMAIN ret : ret[a] \in SameId(call.en, call.jp, a)
  /\ (pc # "idle" /\ call.op = "read_character_mats" /\ ~StopsElsewhere(call)) =>
       /\ pc = "returned"
       /\ Len(ret) = Len(Rows(call.talents))
       /\ \A i \in 1..Len(ret) :
            LET label == Rows(call.talents)[i].character_name
            IN  IF SameId(call.en, call.jp, label) = {}
                THEN ret[i].name = label
                ELSE ret[i].name \in SameId(call.en, call.jp, label)

\* The join has produced a character whose label has no cross reference.
C8_Witness ==
  /\ pc = "returned"
  /\ call.op = "read_character_mats"
  /\ call.en = ("Diluc" :> 1)
  /\ call.jp = ("Dirukku" :> 2)
  /\ Len(ret) = 1
  /\ Rows(call.talents)[1].character_name = "Diluc"
  /\ ret[1].name = "Diluc"

(***************************************************************************)
(* C9: in the join, a raw material line item whose kind is not "Talent     *)
(* Level-Up Material", whose name classifies to no type, or whose weekday  *)
(* set does not resolve through the resource index (no entry, no weekday   *)
(* list, unparsable weekday name) is dropped alone: the character is still *)
(* produced with its name, its thumbnail and its other items in source     *)
(* order, and the join does not fail.                                      *)
(***************************************************************************)
Resolves(catalog, mat) ==
  /\ mat.mat_type = "Talent Level-Up Material"
  /\ Matching(mat.name) # {}
  /\ HasWeekdays(catalog, mat.name)
  /\ \A k \in 1..Len(Weekdays(catalog, mat.name)) :
       Weekdays(catalog, mat.name)[k] \in DayOfWeek

KeptNames(catalog, materials) ==
  LET kept == SelectSeq(materials, LAMBDA mat : Resolves(catalog, mat))
  IN  [k \in 1..Len(kept) |-> kept[k].name]

C9_OnlyTheItemIsDropped ==
  (/\ pc # "idle"
   /\ call.op = "read_character_mats"
   /\ \A i \in 1..Len(Rows(call.talents)) :
        Rows(call.talents)[i].character_name \in RosterNames(call.characters)) =>
    /\ pc = "returned"
    /\ Len(ret) = Len(Rows(call.talents))
    /\ \A i \in 1..Len(ret) :
         LET row == Rows(call.talents)[i]
         IN  /\ ret[i].name \in {row.character_name} \cup DOMAIN call.jp
             /\ ret[i].thumbnail # <<>>
             /\ [k \in 1..Len(ret[i].talent_materials) |->
                   ret[i].talent_materials[k].name]
                  = KeptNames(call.resources, row.materials)

(***************************************************************************)
(* C10: every TalentLevelUpMaterial in the materials list of a Character   *)
(* produced by the join has a non-empty weekday list, for every content of *)
(* the resource catalog.                                                   *)
(***************************************************************************)
C10_WeekdaysNonEmpty ==
  (pc = "returned" /\ call.op = "read_character_mats") =>
    \A i \in 1..Len(ret) : \A k \in 1..Len(ret[i].talent_materials) :
      ret[i].talent_materials[k].days # <<>>

(***************************************************************************)
(* C11: the index returned by read_resources retains an entry only if its  *)
(* object_type is "item" and its type label is "Talent Level-Up Material", *)
(* and every name carried by at least one such entry is a key of the       *)
(* index; entries of any other object_type or type label are absent.       *)
(***************************************************************************)
C11_OnlyLevelUpItemsRetained ==
  (pc = "returned" /\ call.op = "read_resources") =>
    /\ \A n \in DOMAIN ret :
         /\ ret[n].object_type = "item"
         /\ ret[n].type_field = "Talent Level-Up Material"
         /\ ret[n].name = n
         /\ \E i \in 1..Len(call.data) : call.data[i] = ret[n]
    /\ DOMAIN ret =
         {call.data[i].name : i \in {j \in 1..Len(call.data) :
                                       /\ call.data[j].object_type = "item"
                                       /\ call.data[j].type_field =
                                            "Talent Level-Up Material"}}

\* One name carried by a retained and by a filtered entry, another name
\* carried by no retained entry.
C11_Witness ==
  /\ pc = "returned"
  /\ call.op = "read_resources"
  /\ Len(call.data) = 2
  /\ call.data[1].object_type = "item"
  /\ call.data[1].type_field = "Talent Level-Up Material"
  /\ call.data[2].object_type = "enemy"
  /\ call.data[2].type_field = "Talent Level-Up Material"
  /\ call.data[1].name # call.data[2].name
  /\ DOMAIN ret = {call.data[1].name}

(***************************************************************************)
(* C12: when several locale-B labels share one numeric id that a locale-A  *)
(* label also carries, two builds of the cross reference from the same two *)
(* id tables yield the same mapping, whatever order the tables' entries    *)
(* are iterated in.                                                        *)
(***************************************************************************)
C12_BuildsAgree ==
  (pc = "returned" /\ call.op = "read_en_to_jp") =>
    \A en_order \in Orders(call.en), jp_order \in Orders(call.jp) :
      read_en_to_jp(call.en, call.jp, en_order, jp_order) = ret

(***************************************************************************)
(* C13 (as stated): for each of the seven weekdays the material list of    *)
(* the schedule table is strictly descending in the declaration order of   *)
(* the enumeration.                                                        *)
(***************************************************************************)
Descending(list) ==
  \A i \in 1..(Len(list) - 1) : Ordinal(list[i]) > Ordinal(list[i + 1])

Ascending(list) ==
  \A i \in 1..(Len(list) - 1) : Ordinal(list[i]) < Ordinal(list[i + 1])

C13_EveryDayNewestFirst ==
  (pc = "returned" /\ call.op = "day_to_mat_type") =>
    \A d \in DayOfWeek : Descending(ret[d])

(***************************************************************************)
(* C13 (amended): for each of Monday to Saturday the material list of the  *)
(* schedule table is strictly descending in the declaration order of the   *)
(* enumeration; Sunday's list is the enumeration in declaration order,     *)
(* strictly ascending.                                                     *)
(***************************************************************************)
C13_WeekdaysNewestFirst ==
  (pc = "returned" /\ call.op = "day_to_mat_type") =>
    /\ \A d \in DayOfWeek \ {"Sunday"} : Descending(ret[d])
    /\ Ascending(ret["Sunday"])

\* The table has been built: Monday runs from the newest region to the
\* oldest, Sunday from the oldest to the newest.
C13_Witness ==
  /\ pc = "returned"
  /\ call.op = "day_to_mat_type"
  /\ ret["Monday"][1] = "Contention"
  /\ ret["Monday"][Len(ret["Monday"])] = "Freedom"
  /\ ret["Sunday"][1] = "Freedom"
  /\ ret["Sunday"][Len(ret["Sunday"])] = "Conflict"

====
